---------------------------- MODULE Spec2Model ----------------------------
(***************************************************************************)
(* A model of sicd-rs (src/src/lib.rs): version resolution                 *)
(* (SicdVersion::from_str), metadata dispatch (parse_sicd), the metadata   *)
(* accessors of SicdMeta, the byte decoder (ImageData::initialize, with    *)
(* its parallel zip) and the assembly of a Sicd (Sicd::from_file).         *)
(*                                                                         *)
(* Strings are sequences of one-character strings.  A 32-bit float is its  *)
(* bit pattern, a natural number below 2^32.  A Result is a record whose   *)
(* kind is "Ok", "Err" or "Panic" (an unwrap() that hit an Err).           *)
(***************************************************************************)
EXTENDS Integers, Sequences, FiniteSets, TLC

VARIABLES
    token,        \* from_str: the argument s
    verResult,    \* from_str: the value returned
    sicd_str,     \* parse_sicd: the argument
    parseResult,  \* parse_sicd: the outcome
    deTried,      \* parse_sicd: the version schemas from_str was called with
    meta,         \* the SicdMeta an accessor is called on (self)
    accessor,     \* the accessor called
    accResult,    \* the value the accessor returned
    slice,        \* initialize: the bytes of the image segment
    n_rows,       \* initialize: meta.nrows
    n_cols,       \* initialize: meta.ncols
    new_size,     \* im_data.new_size
    array,        \* im_data.array, a function of the cell <<row, col>>
    pc,           \* initialize: "start", "zip", "returned" or "panicked"
    tasks,        \* par_azip!: the parts of the zip, each with its progress
    writes,       \* par_azip!: how many times each cell was written
    reads,        \* the byte offsets read through float_slice
    nitf,         \* from_file: the container Nitf::from_file gave
    sicd          \* from_file: the outcome

versionVars == <<token, verResult>>
parseVars == <<sicd_str, parseResult, deTried>>
accessVars == <<meta, accessor, accResult>>
decodeVars == <<slice, n_rows, n_cols, new_size, array, pc, tasks, writes, reads>>
assembleVars == <<nitf, sicd>>
vars ==
    <<token, verResult, sicd_str, parseResult, deTried, meta, accessor, accResult,
      slice, n_rows, n_cols, new_size, array, pc, tasks, writes, reads, nitf, sicd>>

(***************************************************************************)
(* Bounds                                                                  *)
(***************************************************************************)
MaxPieces == 3
MaxXmlnsPieces == 2
MaxContent == 2
MaxMetaContent == 5
MaxBufLen == 49
MaxRows == 2
MaxCols == 3
MaxSeed == 2
MaxImg == 3

(***************************************************************************)
(* Results                                                                 *)
(***************************************************************************)
NoResult == [kind |-> "None"]
Ok(v) == [kind |-> "Ok", val |-> v]
Err(e) == [kind |-> "Err", err |-> e]
Panic(e) == [kind |-> "Panic", err |-> e]

\* SicdError (lib.rs 26-34)
VersionError(s) == [error |-> "VersionError", payload |-> s]
Unimpl(s) == [error |-> "Unimpl", payload |-> s]

(***************************************************************************)
(* SicdVersion and SicdVersion::from_str                                   *)
(***************************************************************************)
SicdVersion ==
    {"V0_3_1", "V0_4_0", "V0_4_1", "V0_5_0", "V1_0_0",
     "V1_0_1", "V1_1_0", "V1_2_0", "V1_2_1", "V1_3_0"}

\* the string literal "a.b.c"
Dotted(a, b, c) == <<a, ".", b, ".", c>>

\* the pattern of s.split("urn:SICD:")
UrnPrefix == <<"u", "r", "n", ":", "S", "I", "C", "D", ":">>

StartsWith(s, p) == Len(s) >= Len(p) /\ SubSeq(s, 1, Len(p)) = p

\* s.split(pat).collect::<String>(): the pieces between the non-overlapping
\* matches of pat, found left to right, concatenated.
RECURSIVE SplitCollect(_, _)
SplitCollect(s, pat) ==
    IF Len(s) < Len(pat) THEN s
    ELSE IF StartsWith(s, pat)
         THEN SplitCollect(SubSeq(s, Len(pat) + 1, Len(s)), pat)
         ELSE <<Head(s)>> \o SplitCollect(Tail(s), pat)

\* the arms of the match in from_str
VersionTable ==
    {<<Dotted("0", "3", "1"), "V0_3_1">>,
     <<Dotted("0", "4", "0"), "V0_4_0">>,
     <<Dotted("0", "4", "1"), "V0_4_1">>,
     <<Dotted("0", "5", "0"), "V0_5_0">>,
     <<Dotted("1", "0", "0"), "V1_0_0">>,
     <<Dotted("1", "0", "1"), "V1_0_1">>,
     <<Dotted("1", "1", "0"), "V1_1_0">>,
     <<Dotted("1", "2", "0"), "V1_2_0">>,
     <<Dotted("1", "2", "1"), "V1_2_1">>,
     <<Dotted("1", "3", "0"), "V1_3_0">>}

from_str(s) ==
    LET key == SplitCollect(s, UrnPrefix)
        hit == {e \in VersionTable : e[1] = key}
    IN  IF hit # {}
        THEN Ok((CHOOSE e \in hit : TRUE)[2])
        ELSE Err(VersionError(s))

(***************************************************************************)
(* Inputs of from_str: concatenations of at most MaxPieces pieces, so that *)
(* the prefix occurs at the front, in the middle, at the end, twice, or    *)
(* split in two.                                                           *)
(***************************************************************************)
Pieces ==
    {<<>>, UrnPrefix,
     <<"u", "r", "n", ":">>, <<"S", "I", "C", "D", ":">>,
     <<"1", ".", "0">>, <<".", "0">>, <<"x">>, Dotted("2", "0", "0")}
    \cup {e[1] : e \in VersionTable}

RECURSIVE Concat(_)
Concat(ps) == IF ps = <<>> THEN <<>> ELSE Head(ps) \o Concat(Tail(ps))

TokensOf(n) == {Concat(ps) : ps \in [1..n -> Pieces]}

Tokens == TokensOf(MaxPieces)

(***************************************************************************)
(* The metadata text.  Of an XML document the model keeps what parse_sicd  *)
(* depends on: whether a VersionGetter (the root's xmlns attribute) can be *)
(* read from it, the attribute's value, the version schemas the document   *)
(* deserializes against, and its content.                                  *)
(***************************************************************************)
Schemas == {"V0_4_0", "V0_5_0", "V1"}

SchemaFits == {{}, {"V0_4_0"}, {"V0_5_0"}, {"V1"}, Schemas}

MetaTexts ==
    [hasXmlns : BOOLEAN, xmlns : TokensOf(MaxXmlnsPieces),
     fits : SchemaFits, content : 1..MaxContent]

DeError == [error |-> "DeError", payload |-> <<>>]

\* from_str::<VersionGetter>(&sicd_str)
DeserializeVersionGetter(text) ==
    IF text.hasXmlns THEN Ok(text.xmlns) ELSE Err(DeError)

\* quick_xml::de::from_str into dep::v0_4_0::SicdMeta, dep::v0_5_0::SicdMeta
\* or v1_3_0::SicdMeta
DeserializeMeta(schema, text) ==
    IF schema \in text.fits
    THEN Ok([schema |-> schema, content |-> text.content])
    ELSE Err(DeError)

(***************************************************************************)
(* SicdMeta (lib.rs 117-124) and parse_sicd                                *)
(***************************************************************************)
NoMeta == [schema |-> "none", content |-> 0]

SicdMetaOf(tag, m) == [tag |-> tag, meta |-> m]

\* the literals "V0_3_1" and "V0_4_1" of parse_sicd
NameV0_3_1 == <<"V", "0", "_", "3", "_", "1">>
NameV0_4_1 == <<"V", "0", "_", "4", "_", "1">>

\* an arm Err(Unimpl(name.to_string()))
UnimplArm(name) == [res |-> Err(Unimpl(name)), tried |-> {}]

\* an arm Ok((version, SicdMeta::Tag(from_str(sicd_str).unwrap())))
SchemaArm(version, tag, text) ==
    LET d == DeserializeMeta(tag, text)
    IN  [res |-> IF d.kind = "Ok"
                 THEN Ok([version |-> version, meta |-> SicdMetaOf(tag, d.val)])
                 ELSE Panic(d.err),
         tried |-> {tag}]

\* a dispatch that lost the arm of V0_4_1: the version falls to `other`
DispatchNoArm(sicd_version, text) ==
    CASE sicd_version = "V0_3_1" -> UnimplArm(NameV0_3_1)
      [] sicd_version = "V0_4_0" -> SchemaArm("V0_4_0", "V0_4_0", text)
      [] sicd_version = "V0_5_0" -> SchemaArm("V0_5_0", "V0_5_0", text)
      [] OTHER -> SchemaArm(sicd_version, "V1", text)

\* a dispatch whose V0_5_0 arm builds the V0_4_0 variant
DispatchWrongArm(sicd_version, text) ==
    CASE sicd_version = "V0_3_1" -> UnimplArm(NameV0_3_1)
      [] sicd_version = "V0_4_0" -> SchemaArm("V0_4_0", "V0_4_0", text)
      [] sicd_version = "V0_4_1" -> UnimplArm(NameV0_4_1)
      [] sicd_version = "V0_5_0" -> SchemaArm("V0_5_0", "V0_4_0", text)
      [] OTHER -> SchemaArm(sicd_version, "V1", text)

\* the match of parse_sicd
Dispatch(sicd_version, text) ==
    CASE sicd_version = "V0_3_1" -> UnimplArm(NameV0_3_1)
      [] sicd_version = "V0_4_0" -> SchemaArm("V0_4_0", "V0_4_0", text)
      [] sicd_version = "V0_4_1" -> UnimplArm(NameV0_4_1)
      [] sicd_version = "V0_5_0" -> SchemaArm("V0_5_0", "V0_5_0", text)
      [] OTHER -> SchemaArm(sicd_version, "V1", text)

parse_sicd(text) ==
    LET tmp == DeserializeVersionGetter(text)
    IN  IF tmp.kind # "Ok" THEN [res |-> Panic(tmp.err), tried |-> {}]
        ELSE LET sicd_version == from_str(tmp.val)
             IN  IF sicd_version.kind # "Ok"
                 THEN [res |-> Panic(sicd_version.err), tried |-> {}]
                 ELSE Dispatch(sicd_version.val, text)

(***************************************************************************)
(* The accessors of SicdMeta (lib.rs 126-151)                              *)
(***************************************************************************)
Some(m) == [kind |-> "Some", val |-> m]
None == [kind |-> "NoneOption"]
Error(e) == [kind |-> "SicdError", err |-> e]

get_v0_3_1_meta(self) == Error(Unimpl(Dotted("0", "3", "1")))

\* an accessor whose match has only the arm `_ => None`
get_meta_never(self) == None

get_v0_4_0_meta(self) ==
    IF self.tag = "V0_4_0" THEN Some(self.meta) ELSE None

get_v0_4_1_meta(self) == Error(Unimpl(Dotted("0", "4", "1")))

get_v0_5_0_meta(self) ==
    IF self.tag = "V0_5_0" THEN Some(self.meta) ELSE None

get_v1_meta(self) ==
    IF self.tag = "V1" THEN Some(self.meta) ELSE None

\* every value of the enum SicdMeta
SicdMetaValues ==
    {SicdMetaOf("V0_3_1", NoMeta), SicdMetaOf("V0_4_1", NoMeta)}
    \cup {SicdMetaOf(t, [schema |-> t, content |-> c]) :
             t \in Schemas, c \in 1..MaxMetaContent}

(***************************************************************************)
(* ImageData::initialize (lib.rs 60-81)                                    *)
(***************************************************************************)
\* std::mem::size_of::<Complex<f32>>()
SampleBytes == 8

\* An f32 is its 32-bit pattern, kept as two 16-bit halves: the pattern is
\* hi * 65536 + lo.
F32(hi, lo) == [hi |-> hi, lo |-> lo]

\* f32::from_le_bytes(b)
from_le_bytes(b) == F32(b[4] * 256 + b[3], b[2] * 256 + b[1])

\* f32::from_be_bytes(b), b an array of 4 bytes
from_be_bytes(b) == F32(b[1] * 256 + b[2], b[3] * 256 + b[4])

\* byte_slice.len() rounded up to whole samples
NewSizeCeil(len) == (len + SampleBytes - 1) \div SampleBytes

\* im_data.new_size = byte_slice.len() / size_of::<Complex<f32>>()
NewSize(len) == len \div SampleBytes

\* ArrayView2::from_shape((rows, cols), float_slice) is Ok: ndarray accepts a
\* slice that holds at least rows * cols elements.
FromShapeOk(rows, cols, len) == rows * cols <= len

Cells(rows, cols) == (0..(rows - 1)) \X (0..(cols - 1))

\* Complex::zero(): both parts 0.0, the all-zero pattern
Zero == [re |-> F32(0, 0), im |-> F32(0, 0)]

\* float_slice[k]: the [[u8; 4]; 2] at byte offset SampleBytes * k of the
\* slice.  A byte past the end of the slice is whatever the memory holds.
InBounds(s, k) == SampleBytes * (k + 1) <= Len(s)

JunkFor(s, k) ==
    IF InBounds(s, k) THEN {[j \in 1..SampleBytes |-> 0]}
    ELSE [1..SampleBytes -> {0, 255}]

InElem(s, k, junk) ==
    LET byte(j) == IF SampleBytes * k + j <= Len(s)
                   THEN s[SampleBytes * k + j] ELSE junk[j]
    IN  <<(<<byte(1), byte(2), byte(3), byte(4)>>),
          (<<byte(5), byte(6), byte(7), byte(8)>>)>>

\* the body of the zip: out_elem.re, out_elem.im from in_elem
OutElem(in_elem) ==
    [re |-> from_be_bytes(in_elem[1]), im |-> from_be_bytes(in_elem[2])]

(***************************************************************************)
(* par_azip!: the zip is a block of cells; rayon may split a block that    *)
(* holds more than one cell in two (ndarray splits the first axis longer   *)
(* than 1 at its middle) or fold it, cell after cell in row-major order.   *)
(***************************************************************************)
Block(r0, r1, c0, c1) == [r0 |-> r0, r1 |-> r1, c0 |-> c0, c1 |-> c1, next |-> 0]

Size(t) == (t.r1 - t.r0) * (t.c1 - t.c0)

\* a split whose second half starts one cell early
SplitOverlap(t) ==
    IF t.r1 - t.r0 > 1
    THEN LET mid == t.r0 + ((t.r1 - t.r0) \div 2)
         IN  {Block(t.r0, mid, t.c0, t.c1), Block(mid - 1, t.r1, t.c0, t.c1)}
    ELSE LET mid == t.c0 + ((t.c1 - t.c0) \div 2)
         IN  {Block(t.r0, t.r1, t.c0, mid), Block(t.r0, t.r1, mid - 1, t.c1)}

\* Zip::split
SplitBlock(t) ==
    IF t.r1 - t.r0 > 1
    THEN LET mid == t.r0 + ((t.r1 - t.r0) \div 2)
         IN  {Block(t.r0, mid, t.c0, t.c1), Block(mid, t.r1, t.c0, t.c1)}
    ELSE LET mid == t.c0 + ((t.c1 - t.c0) \div 2)
         IN  {Block(t.r0, t.r1, t.c0, mid), Block(t.r0, t.r1, mid, t.c1)}

\* the cell a folding task visits next
NextCell(t) ==
    <<t.r0 + (t.next \div (t.c1 - t.c0)), t.c0 + (t.next % (t.c1 - t.c0))>>

\* the cells a task has still to visit
Pending(t) ==
    {cell \in (t.r0..(t.r1 - 1)) \X (t.c0..(t.c1 - 1)) :
        (cell[1] - t.r0) * (t.c1 - t.c0) + (cell[2] - t.c0) >= t.next}

\* the index in float_slice of a cell of the row-major view
ViewIndex(cell, cols) == cell[1] * cols + cell[2]

\* the buffers: byte i (from 0) of buffer `seed` is (41 * seed + 7 * i) % 256,
\* so that no two bytes of a buffer are equal
Buffer(len, seed) == [i \in 1..len |-> (41 * seed + 7 * (i - 1)) % 256]

(***************************************************************************)
(* initialize as a function of its arguments, and Sicd::from_file          *)
(* (lib.rs 175-194)                                                        *)
(***************************************************************************)
ShapeError == [error |-> "ShapeError", payload |-> <<>>]

initialize(bytes, rows, cols) ==
    IF FromShapeOk(rows, cols, NewSize(Len(bytes)))
    THEN Ok([n_rows |-> rows, n_cols |-> cols,
             new_size |-> NewSize(Len(bytes)),
             array |-> [cell \in Cells(rows, cols) |->
                          OutElem(InElem(bytes, ViewIndex(cell, cols),
                                         [j \in 1..SampleBytes |-> 0]))]])
    ELSE Panic(ShapeError)

\* the loop of from_file: each segment is decoded into tmp, and tmp is dropped
\* at the end of the loop body; image_data stays the empty vec
RECURSIVE DecodeLoop(_, _, _)
DecodeLoop(segments, i_img, image_data) ==
    IF i_img > Len(segments) THEN Ok(image_data)
    ELSE LET tmp == initialize(segments[i_img].data,
                               segments[i_img].nrows, segments[i_img].ncols)
         IN  IF tmp.kind # "Ok" THEN tmp
             ELSE DecodeLoop(segments, i_img + 1, image_data)

from_file(container) ==
    LET parsed == parse_sicd(container.des).res
    IN  IF parsed.kind # "Ok" THEN Panic(parsed.err)
        ELSE LET images == DecodeLoop(container.image_segments, 1, <<>>)
             IN  IF images.kind # "Ok" THEN images
                 ELSE Ok([meta |-> parsed.val.meta,
                          version |-> parsed.val.version,
                          image_data |-> images.val])

\* the containers: the metadata text of the first data extension segment and
\* the image segments, numi of them
SegmentChoices ==
    {[data |-> Buffer(len, seed), nrows |-> 1, ncols |-> c] :
        len \in {SampleBytes, 2 * SampleBytes}, c \in 1..2, seed \in 1..MaxSeed}

RECURSIVE SeqsUpTo(_, _)
SeqsUpTo(S, n) ==
    IF n = 0 THEN {<<>>}
    ELSE SeqsUpTo(S, n - 1)
         \cup {Append(q, x) : q \in {p \in SeqsUpTo(S, n - 1) : Len(p) = n - 1}, x \in S}

AssembleTexts ==
    [hasXmlns : {TRUE},
     xmlns : {UrnPrefix \o Dotted(a, b, "0") : a \in {"0", "1", "2"}, b \in {"3", "4"}}
             \cup {UrnPrefix \o Dotted("0", "3", "1")},
     fits : {{}, Schemas}, content : {1}]

Containers ==
    [des : AssembleTexts, image_segments : SeqsUpTo(SegmentChoices, MaxImg)]

(***************************************************************************)
(* Specification of the resolver                                           *)
(***************************************************************************)
ParseIdle == sicd_str = <<>> /\ parseResult = NoResult /\ deTried = {}

AccessIdle == meta = SicdMetaOf("V0_3_1", NoMeta) /\ accessor = "" /\ accResult = NoResult

DecodeIdle ==
    /\ slice = <<>> /\ n_rows = 0 /\ n_cols = 0 /\ new_size = 0
    /\ array = <<>> /\ pc = "idle" /\ tasks = {} /\ writes = <<>> /\ reads = {}

AssembleIdle == nitf = <<>> /\ sicd = NoResult

InitVersion ==
    /\ token \in Tokens
    /\ verResult = NoResult
    /\ ParseIdle
    /\ AccessIdle
    /\ DecodeIdle
    /\ AssembleIdle

FromStr ==
    /\ verResult = NoResult
    /\ verResult' = from_str(token)
    /\ UNCHANGED <<token, parseVars, accessVars, decodeVars, assembleVars>>

NextVersion == FromStr

SpecVersion == InitVersion /\ [][NextVersion]_vars

(***************************************************************************)
(* C1.  from_str strips the leading "urn:SICD:" and looks the rest up      *)
(* exactly: each of the ten known tokens, with or without the leading      *)
(* prefix, gives its SicdVersion, and every other token gives              *)
(* VersionError carrying the token verbatim.                               *)
(***************************************************************************)
KnownInput(s) ==
    \E e \in VersionTable : s = e[1] \/ s = UrnPrefix \o e[1]

C1_Original ==
    verResult # NoResult =>
        /\ \A e \in VersionTable :
              token \in {e[1], UrnPrefix \o e[1]} => verResult = Ok(e[2])
        /\ ~KnownInput(token) => verResult = Err(VersionError(token))

(***************************************************************************)
(* Specification of the dispatcher                                         *)
(***************************************************************************)
VersionIdle == token = <<>> /\ verResult = NoResult

InitParse ==
    /\ sicd_str \in MetaTexts
    /\ parseResult = NoResult
    /\ deTried = {}
    /\ VersionIdle
    /\ AccessIdle
    /\ DecodeIdle
    /\ AssembleIdle

ParseSicd ==
    /\ parseResult = NoResult
    /\ parseResult' = parse_sicd(sicd_str).res
    /\ deTried' = parse_sicd(sicd_str).tried
    /\ UNCHANGED <<sicd_str, versionVars, accessVars, decodeVars, assembleVars>>

NextParse == ParseSicd

SpecParse == InitParse /\ [][NextParse]_vars

\* the SicdVersion the resolver gives the text's namespace token
Resolved == from_str(sicd_str.xmlns)

(***************************************************************************)
(* C3.  When the namespace token is not a known version, parse_sicd        *)
(* returns the resolver's VersionError to its caller as an error value,    *)
(* and no version's metadata is deserialized.                              *)
(***************************************************************************)
C3_Original ==
    (parseResult # NoResult /\ sicd_str.hasXmlns /\ Resolved.kind = "Err") =>
        /\ parseResult = Err(VersionError(sicd_str.xmlns))
        /\ deTried = {}

(***************************************************************************)
(* C4.  For V0_3_1 and V0_4_1 parse_sicd returns Err(Unimpl) carrying the  *)
(* name of that version and tries no version schema; for every other known *)
(* version it does not return Unimpl.                                      *)
(***************************************************************************)
C4_Unimplemented ==
    (parseResult # NoResult /\ sicd_str.hasXmlns /\ Resolved.kind = "Ok") =>
        /\ Resolved.val = "V0_3_1" =>
              parseResult = Err(Unimpl(<<"V", "0", "_", "3", "_", "1">>))
              /\ deTried = {}
        /\ Resolved.val = "V0_4_1" =>
              parseResult = Err(Unimpl(<<"V", "0", "_", "4", "_", "1">>))
              /\ deTried = {}
        /\ Resolved.val \notin {"V0_3_1", "V0_4_1"} =>
              ~(parseResult.kind = "Err" /\ parseResult.err.error = "Unimpl")

C4_Witness ==
    /\ sicd_str.hasXmlns
    /\ Resolved = Ok("V0_4_1")
    /\ sicd_str.fits = Schemas
    /\ parseResult.kind = "Err"

(***************************************************************************)
(* C8.  When parse_sicd succeeds the version returned is the resolved one  *)
(* and the SicdMeta variant is the one of that version: V0_4_0 for 0.4.0,  *)
(* V0_5_0 for 0.5.0 and the shared V1 for every 1.x version, whose payload *)
(* is the text deserialized against that one schema.                       *)
(***************************************************************************)
VariantOf(v) ==
    CASE v = "V0_4_0" -> "V0_4_0"
      [] v = "V0_5_0" -> "V0_5_0"
      [] v \in {"V1_0_0", "V1_0_1", "V1_1_0", "V1_2_0", "V1_2_1", "V1_3_0"} -> "V1"
      [] OTHER -> "none"

C8_TagMatchesVersion ==
    parseResult.kind = "Ok" =>
        /\ Resolved.kind = "Ok"
        /\ parseResult.val.version = Resolved.val
        /\ parseResult.val.meta.tag = VariantOf(Resolved.val)
        /\ parseResult.val.meta.meta =
              [schema |-> VariantOf(Resolved.val), content |-> sicd_str.content]
        /\ deTried = {VariantOf(Resolved.val)}

C8_Witness ==
    /\ parseResult.kind = "Ok"
    /\ parseResult.val.version = "V1_2_1"
    /\ parseResult.val.meta.tag = "V1"

(***************************************************************************)
(* Specification of the accessors                                          *)
(***************************************************************************)
InitAccess ==
    /\ meta \in SicdMetaValues
    /\ accessor = ""
    /\ accResult = NoResult
    /\ VersionIdle
    /\ ParseIdle
    /\ DecodeIdle
    /\ AssembleIdle

Called(name, result) ==
    /\ accessor = ""
    /\ accessor' = name
    /\ accResult' = result
    /\ UNCHANGED <<meta, versionVars, parseVars, decodeVars, assembleVars>>

GetV0_3_1Meta == Called("get_v0_3_1_meta", get_v0_3_1_meta(meta))
GetV0_4_0Meta == Called("get_v0_4_0_meta", get_v0_4_0_meta(meta))
GetV0_4_1Meta == Called("get_v0_4_1_meta", get_v0_4_1_meta(meta))
GetV0_5_0Meta == Called("get_v0_5_0_meta", get_v0_5_0_meta(meta))
GetV1Meta == Called("get_v1_meta", get_v1_meta(meta))

NextAccess ==
    \/ GetV0_3_1Meta
    \/ GetV0_4_0Meta
    \/ GetV0_4_1Meta
    \/ GetV0_5_0Meta
    \/ GetV1Meta

SpecAccess == InitAccess /\ [][NextAccess]_vars

\* the variant an accessor is for
ExpectedVariant ==
    [get_v0_3_1_meta |-> "V0_3_1", get_v0_4_0_meta |-> "V0_4_0",
     get_v0_4_1_meta |-> "V0_4_1", get_v0_5_0_meta |-> "V0_5_0",
     get_v1_meta |-> "V1"]

(***************************************************************************)
(* C7 as stated.  Each of the five accessors returns the metadata only     *)
(* when the stored variant is the one it is for, and None whenever the     *)
(* stored variant is another one.                                          *)
(***************************************************************************)
C7_Original ==
    accessor # "" =>
        /\ accResult.kind = "Some" =>
              meta.tag = ExpectedVariant[accessor] /\ accResult.val = meta.meta
        /\ meta.tag # ExpectedVariant[accessor] => accResult = None

(***************************************************************************)
(* C7 as amended.  get_v0_4_0_meta, get_v0_5_0_meta and get_v1_meta return *)
(* Some(the stored metadata) exactly when the stored variant is theirs and *)
(* None otherwise; get_v0_3_1_meta and get_v0_4_1_meta return the          *)
(* SicdError Unimpl of their version whatever the stored variant.  No      *)
(* accessor returns the metadata of another variant.                       *)
(***************************************************************************)
C7_Amended ==
    accessor # "" =>
        /\ accessor \in {"get_v0_4_0_meta", "get_v0_5_0_meta", "get_v1_meta"} =>
              accResult = IF meta.tag = ExpectedVariant[accessor]
                          THEN [kind |-> "Some", val |-> meta.meta]
                          ELSE [kind |-> "NoneOption"]
        /\ accessor = "get_v0_3_1_meta" =>
              accResult = [kind |-> "SicdError",
                           err |-> Unimpl(<<"0", ".", "3", ".", "1">>)]
        /\ accessor = "get_v0_4_1_meta" =>
              accResult = [kind |-> "SicdError",
                           err |-> Unimpl(<<"0", ".", "4", ".", "1">>)]
        /\ accResult.kind = "Some" =>
              accResult.val.schema = ExpectedVariant[accessor]

C7_Witness ==
    /\ accessor = "get_v0_4_0_meta"
    /\ meta.tag = "V0_4_0"
    /\ accResult.kind = "Some"

(***************************************************************************)
(* Specification of the decoder                                            *)
(***************************************************************************)
InitDecode ==
    /\ \E len \in 0..MaxBufLen, seed \in 1..MaxSeed : slice = Buffer(len, seed)
    /\ n_rows \in 0..MaxRows
    /\ n_cols \in 0..MaxCols
    /\ new_size = 0
    /\ array = <<>>
    /\ pc = "start"
    /\ tasks = {}
    /\ writes = <<>>
    /\ reads = {}
    /\ VersionIdle
    /\ ParseIdle
    /\ AccessIdle
    /\ AssembleIdle

\* lines 61-74: the sizes, the view (unwrap panics on a shape error), the
\* zeroed array; then the zip starts as one block
Initialize ==
    /\ pc = "start"
    /\ new_size' = NewSize(Len(slice))
    /\ IF FromShapeOk(n_rows, n_cols, new_size')
       THEN /\ pc' = "zip"
            /\ array' = [cell \in Cells(n_rows, n_cols) |-> Zero]
            /\ writes' = [cell \in Cells(n_rows, n_cols) |-> 0]
            /\ tasks' = {Block(0, n_rows, 0, n_cols)}
       ELSE /\ pc' = "panicked"
            /\ UNCHANGED <<array, writes, tasks>>
    /\ UNCHANGED <<slice, n_rows, n_cols, reads, versionVars, parseVars, accessVars,
                   assembleVars>>

\* rayon splits a block no task has begun to fold
Split ==
    /\ pc = "zip"
    /\ \E t \in tasks :
          /\ t.next = 0
          /\ Size(t) > 1
          /\ tasks' = (tasks \ {t}) \cup SplitBlock(t)
    /\ UNCHANGED <<slice, n_rows, n_cols, new_size, array, pc, writes, reads,
                   versionVars, parseVars, accessVars, assembleVars>>

\* a task folds the next cell of its block (lines 76-79)
Work ==
    /\ pc = "zip"
    /\ \E t \in tasks :
          /\ t.next < Size(t)
          /\ LET cell == NextCell(t)
                 k == ViewIndex(cell, n_cols)
             IN  \E junk \in JunkFor(slice, k) :
                    /\ array' = [array EXCEPT ![cell] = OutElem(InElem(slice, k, junk))]
                    /\ writes' = [writes EXCEPT ![cell] = @ + 1]
                    /\ reads' = reads \cup
                          ((SampleBytes * k)..(SampleBytes * k + SampleBytes - 1))
          /\ tasks' = (tasks \ {t}) \cup {[t EXCEPT !.next = @ + 1]}
    /\ UNCHANGED <<slice, n_rows, n_cols, new_size, pc, versionVars, parseVars, accessVars,
                   assembleVars>>

\* every task is done: initialize returns im_data (line 80)
Return ==
    /\ pc = "zip"
    /\ \A t \in tasks : t.next >= Size(t)
    /\ pc' = "returned"
    /\ UNCHANGED <<slice, n_rows, n_cols, new_size, array, tasks, writes, reads,
                   versionVars, parseVars, accessVars, assembleVars>>

NextDecode == Initialize \/ Split \/ Work \/ Return

SpecDecode == InitDecode /\ [][NextDecode]_vars

\* the sample at byte offset `at` (from 0) of the slice, read straight
\* from the bytes
SampleAt(at) ==
    [re |-> [hi |-> slice[at + 1] * 256 + slice[at + 2],
             lo |-> slice[at + 3] * 256 + slice[at + 4]],
     im |-> [hi |-> slice[at + 5] * 256 + slice[at + 6],
             lo |-> slice[at + 7] * 256 + slice[at + 8]]]

(***************************************************************************)
(* C5.  initialize succeeds only when buffer.len() = rows * cols * 8.      *)
(***************************************************************************)
C5_Original ==
    pc = "returned" => Len(slice) = n_rows * n_cols * 8

(***************************************************************************)
(* C6.  For a buffer of rows * cols * 8 bytes the array returned is rows x *)
(* cols and its cell (r, c) is the sample at byte offset                   *)
(* 8 * (r * cols + c): the real part from the first 4 bytes, big-endian,   *)
(* the imaginary part from the next 4.                                     *)
(***************************************************************************)
C6_RowMajorBigEndian ==
    (pc = "returned" /\ Len(slice) = n_rows * n_cols * 8) =>
        /\ DOMAIN array = (0..(n_rows - 1)) \X (0..(n_cols - 1))
        /\ \A r \in 0..(n_rows - 1), c \in 0..(n_cols - 1) :
              array[<<r, c>>] = SampleAt(8 * (r * n_cols + c))

C6_Witness ==
    /\ pc = "returned"
    /\ n_rows = 2 /\ n_cols = 2 /\ Len(slice) = 32
    /\ array[<<1, 0>>] = SampleAt(16)
    /\ array[<<1, 0>>] # array[<<0, 1>>]

(***************************************************************************)
(* C9.  The parallel zip gives the same array under every split of the     *)
(* cells among tasks and every interleaving: no cell is written twice, a   *)
(* cell not yet written is still to be visited by exactly one task, a cell *)
(* written holds the sample of its own 8 bytes, and at the return every    *)
(* cell was written once.                                                  *)
(***************************************************************************)
C9_Deterministic ==
    pc \in {"zip", "returned"} =>
        \A cell \in DOMAIN array :
            /\ writes[cell] \in {0, 1}
            /\ Cardinality({t \in tasks : cell \in Pending(t)}) = 1 - writes[cell]
            /\ writes[cell] = 0 =>
                  array[cell] = [re |-> [hi |-> 0, lo |-> 0], im |-> [hi |-> 0, lo |-> 0]]
            /\ writes[cell] = 1 =>
                  array[cell] = SampleAt(8 * (cell[1] * n_cols + cell[2]))
            /\ pc = "returned" => writes[cell] = 1

C9_Witness ==
    /\ pc = "returned"
    /\ Cardinality(tasks) = 4
    /\ Cardinality(DOMAIN array) = 4

InitAssemble ==
    /\ nitf \in Containers
    /\ sicd = NoResult
    /\ VersionIdle
    /\ ParseIdle
    /\ AccessIdle
    /\ DecodeIdle

FromFile ==
    /\ sicd = NoResult
    /\ sicd' = from_file(nitf)
    /\ UNCHANGED <<nitf, versionVars, parseVars, accessVars, decodeVars>>

NextAssemble == FromFile

SpecAssemble == InitAssemble /\ [][NextAssemble]_vars

(***************************************************************************)
(* C2.  When from_file succeeds on a container of N image segments, the    *)
(* image_data of the Sicd holds N images, the i-th the decoding of the     *)
(* i-th segment.                                                           *)
(***************************************************************************)
C2_Original ==
    sicd.kind = "Ok" =>
        /\ Len(sicd.val.image_data) = Len(nitf.image_segments)
        /\ \A i \in 1..Len(nitf.image_segments) :
              sicd.val.image_data[i] =
                  initialize(nitf.image_segments[i].data,
                             nitf.image_segments[i].nrows,
                             nitf.image_segments[i].ncols).val

=============================================================================
